---- MODULE Spec2Model ----
(***************************************************************************)
(* GPT.generate of gpt/src/model-easier.ts: the autoregressive sampling    *)
(* loop (shaping the model input, the forward pass, temperature, top-k,    *)
(* softmax, the four sampling branches, the append, the callback, the      *)
(* disposal of tensors and the yield to the event loop).                   *)
(*                                                                         *)
(* A tensor of shape (B, T) is a sequence of B rows, each a sequence of T  *)
(* numbers.  Positions and tokens are 0-based as in the source; sequences  *)
(* are 1-based, so column t of the source is element t + 1.                *)
(***************************************************************************)
EXTENDS Integers, Sequences, FiniteSets

\* ---------------------------------------------------------------- bounds
MaxB == 2           \* batch sizes 1..MaxB
MaxT0 == 2          \* prompt lengths 0..MaxT0
MaxNew == 2         \* maxNewTokens 0..MaxNew
MaxBlock == 2       \* blockSize 1..MaxBlock
VocabSize == 3      \* params.vocabSize

Tokens == 0 .. (VocabSize - 1)
Temperatures == {1, 2}
TopKs == {0, 1, 2, VocabSize + 1}      \* 0 stands for "topK not given"
Backends == {"webgpu", "tensorflow", "webgl"}
Weights == {0, 1}
Draws == Tokens

\* ------------------------------------------------------- tensor helpers
Rows(m) == Len(m)
Cols(m) == IF Len(m) = 0 THEN 0 ELSE Len(m[1])

Max(a, b) == IF a >= b THEN a ELSE b
Min(a, b) == IF a <= b THEN a ELSE b

\* t.slice([0, begin], [-1, size]): every row, columns begin .. begin+size-1
SliceCols(m, begin, size) ==
    [b \in 1 .. Rows(m) |-> SubSeq(m[b], begin + 1, begin + size)]

\* tf.zeros([B, n], 'int32')
Zeros(B, n) == [b \in 1 .. B |-> [t \in 1 .. n |-> 0]]

\* tf.concat([x, y], 1) / x.concat(y, 1): defined when the row counts agree
ConcatOk(x, y) == Rows(x) = Rows(y)
Concat1(x, y) == [b \in 1 .. Rows(x) |-> x[b] \o y[b]]

RECURSIVE SumSeq(_)
SumSeq(s) == IF s = <<>> THEN 0 ELSE Head(s) + SumSeq(Tail(s))

\* -Infinity of the top-k mask: below every logit the model can produce
NegInf == -1

\* ------------------------------------------------------------ variables
VARIABLES
    blockSize,      \* params.blockSize of the model
    weights,        \* the trained weights of the layers (fixed during generate)
    maxNewTokens, temperature, doSample, topK,   \* generate's params
    hasCallback,    \* whether onGenerateChar was passed
    prompt,         \* params.idx as the caller passed it
    idx,            \* the running sequence
    i,              \* the loop counter
    pc,             \* position of generate
    idxShaped, pos, lastCharLogits, probs,       \* locals of one iteration
    branch, sampled, idxNext,
    ref,            \* tensor handle held by each local that dispose() is given
    live,           \* handles of the tensors that are allocated and not disposed
    calls,          \* arguments onGenerateChar was called with, in order
    applies,        \* number of forward passes started
    frames          \* number of tf.nextFrame() yields completed

params == <<blockSize, weights, maxNewTokens, temperature, doSample, topK, hasCallback, prompt>>
locals == <<idxShaped, pos, lastCharLogits, probs, branch, sampled, idxNext>>
vars == <<blockSize, weights, maxNewTokens, temperature, doSample, topK, hasCallback,
          prompt, idx, i, pc, idxShaped, pos, lastCharLogits, probs, branch, sampled,
          idxNext, ref, live, calls, applies, frames>>

\* ------------------------------------------------------------ the heap
Handle(n, k) == [n |-> n, i |-> k]
NoTensor == Handle("null", 0)
PromptTensor == Handle("prompt", 0)

\* the locals that hold a tensor, and idx
NoRefs == [idx |-> PromptTensor, idxShaped |-> NoTensor, logits |-> NoTensor,
           lastCharLogits |-> NoTensor, probs |-> NoTensor, sampled |-> NoTensor,
           idxNextSliced |-> NoTensor, idxNext |-> NoTensor, oldIdx |-> NoTensor]

\* dispose(list) of ./utils: dispose every tensor of the list, skipping nulls
dispose(heap, list) == heap \ {list[k] : k \in 1 .. Len(list)}

\* ------------------------------------------------------ the forward pass
\* model.apply: a causal transformer, so the logits of position t of a row
\* depend on the tokens at positions 0..t of that row and on the weights.
\* The layers themselves are the tensor library's; their arithmetic is
\* represented by a fixed function of the weights and the visible tokens
\* with values 0, 2 and 4.
Logit(w, row, t, c) == 2 * ((w + SumSeq(SubSeq(row, 1, t + 1)) * (c + 1) + c) % 3)

apply(w, x) ==
    [b \in 1 .. Rows(x) |->
        [t \in 1 .. Cols(x) |->
            [c \in 1 .. VocabSize |-> Logit(w, x[b], t - 1, c - 1)]]]

\* pos of logits.slice([0, pos, 0], [-1, 1, -1])
LastPos(k, bs) == IF k < bs THEN k ELSE bs - 1

\* logits.slice([0, p, 0], [-1, 1, -1]).squeeze([1]), then tf.div(., temperature)
LastStep(logits, p, temp) ==
    [b \in 1 .. Rows(logits) |->
        [c \in 1 .. VocabSize |-> logits[b][p + 1][c] \div temp]]

\* ------------------------------------------------------------- top-k
\* lastCharLogits.topk(k).values: the k largest entries of each row, descending
SortedDesc(s) ==
    \A a, b \in 1 .. Len(s) : a < b => s[a] >= s[b]
Count(row, v) == Cardinality({c \in 1 .. Len(row) : row[c] = v})
topkValues(m, k) ==
    [b \in 1 .. Rows(m) |->
        CHOOSE s \in [1 .. k -> {m[b][c] : c \in 1 .. Len(m[b])}] :
            /\ SortedDesc(s)
            /\ \A v \in {m[b][c] : c \in 1 .. Len(m[b])} :
                   LET n == Cardinality({j \in 1 .. k : s[j] = v})
                       above == Cardinality({c \in 1 .. Len(m[b]) : m[b][c] > v})
                   IN  n = Max(0, Min(Count(m[b], v), k - above))]

\* lastCharLogits.where(lastCharLogits.greaterEqual(smallestTopK), -Infinity)
\* with smallestTopK = values.slice([0, k - 1]), broadcast along the row
TopKFilter(m, k) ==
    LET values == topkValues(m, k)
        smallestTopK == SliceCols(values, Cols(values) - 1, 1)
    IN  [b \in 1 .. Rows(m) |->
            [c \in 1 .. Len(m[b]) |->
                IF m[b][c] >= smallestTopK[b][1] THEN m[b][c] ELSE NegInf]]

\* the "if (topK)" block: skipped when topK is undefined or 0
ApplyTopK(m, k) == IF k # 0 THEN TopKFilter(m, Min(k, VocabSize)) ELSE m

\* ------------------------------------------------------------ softmax
\* tf.softmax: entry c of a row is exp(l_c) / sum_j exp(l_j), and exp(-Infinity)
\* is 0.  A probability is kept as the pair numerator/denominator, with the
\* base 2 in place of e.
Exp(l) == IF l = NegInf THEN 0 ELSE 2 ^ l
softmax(m) ==
    [b \in 1 .. Rows(m) |->
        [num |-> [c \in 1 .. Len(m[b]) |-> Exp(m[b][c])],
         den |-> SumSeq([c \in 1 .. Len(m[b]) |-> Exp(m[b][c])])]]

\* ------------------------------------------------------------ sampling
\* tokens a multinomial draw over normalised probabilities can return
SupportProbs(p) == {c \in Tokens : p.num[c + 1] > 0}
\* tokens a multinomial draw over unnormalised logits can return
SupportLogits(row) == {c \in Tokens : row[c + 1] # NegInf}

\* the n-th (0-based, cyclic) token of a non-empty set of tokens
NthOf(S, n) ==
    CHOOSE c \in S : Cardinality({d \in S : d < c}) = n % Cardinality(S)

\* tf.multinomial(probs, numSamples, undefined, true): (B, numSamples).
\* u is the outcome of the random source; row b and sample s read it shifted.
multinomialProbs(p, numSamples, u) ==
    [b \in 1 .. Len(p) |->
        [s \in 1 .. numSamples |-> NthOf(SupportProbs(p[b]), u + b + s)]]

\* the same call on the webgpu backend: the 1st sample of every row is 0
\* (tfjs issue 8057, quoted by the source)
multinomialWebgpu(p, numSamples, u) ==
    [b \in 1 .. Len(p) |->
        [s \in 1 .. numSamples |->
            IF s = 1 THEN 0 ELSE NthOf(SupportProbs(p[b]), u + b + s)]]

\* tf.multinomial(lastCharLogits, 1): (B, 1), from unnormalised logits
multinomialLogits(m, u) ==
    [b \in 1 .. Rows(m) |-> <<NthOf(SupportLogits(m[b]), u + b)>>]

\* a slice that keeps both samples of row 0: sampled.slice([0, 0], [1, 2])
SliceWebgpuBothSamples(s) == <<SubSeq(s[1], 1, 2)>>

\* sampled.slice([0, 1], [1, 1]): one row, one column, starting at row 0, column 1
SliceWebgpu(s) == <<SubSeq(s[1], 2, 2)>>

\* probs.argMax(-1).expandDims(-1): first index of the largest probability
argMax(p) ==
    [b \in 1 .. Len(p) |->
        <<CHOOSE c \in Tokens :
            /\ \A d \in Tokens : p[b].num[c + 1] >= p[b].num[d + 1]
            /\ \A d \in Tokens : d < c => p[b].num[d + 1] < p[b].num[c + 1]>>]

\* ------------------------------------------------------------ the input
\* params.idx of shape (B, T0): row b, column t holds (b + t) mod vocabSize
PromptOf(B, T0) ==
    [b \in 1 .. B |-> [t \in 1 .. T0 |-> (b + t) % VocabSize]]

\* an input that keeps the beginning of a sequence that is too long
ShapeKeepBeginning(x, bs) ==
    LET T == Cols(x)
    IN  Concat1(SliceCols(x, 0, Min(T, bs)), Zeros(Rows(x), Max(0, bs - T)))

\* an input without the zero padding of a sequence that is too short
ShapeWithoutPadding(x, bs) ==
    LET T == Cols(x)
    IN  SliceCols(x, Max(0, T - bs), Min(T, bs))

\* the model input built at the top of an iteration
Shape(x, bs) ==
    LET T == Cols(x)
    IN  Concat1(SliceCols(x, Max(0, T - bs), Min(T, bs)),
                Zeros(Rows(x), Max(0, bs - T)))

Init ==
    /\ blockSize \in 1 .. MaxBlock
    /\ weights \in Weights
    /\ maxNewTokens \in 0 .. MaxNew
    /\ temperature \in Temperatures
    /\ doSample \in BOOLEAN
    /\ topK \in TopKs
    /\ hasCallback \in BOOLEAN
    /\ \E B \in 1 .. MaxB, T0 \in 0 .. MaxT0 : prompt = PromptOf(B, T0)
    /\ idx = prompt
    /\ i = 0
    /\ pc = "loop"
    /\ idxShaped = <<>> /\ pos = 0 /\ lastCharLogits = <<>> /\ probs = <<>>
    /\ branch = "none" /\ sampled = <<>> /\ idxNext = <<>>
    /\ ref = NoRefs
    /\ live = {PromptTensor}
    /\ calls = <<>>
    /\ applies = 0
    /\ frames = 0

\* ------------------------------------------------------------ actions
\* lines 79-90: the loop test, T, and the model input idxShaped
ShapeInput ==
    /\ pc = "loop"
    /\ i < maxNewTokens
    /\ idxShaped' = Shape(idx, blockSize)
    /\ live' = live \cup {Handle("slice", i), Handle("zeros", i), Handle("idxShaped", i)}
    /\ ref' = [ref EXCEPT !.idxShaped = Handle("idxShaped", i)]
    /\ pc' = "apply"
    /\ UNCHANGED <<params, idx, i, pos, lastCharLogits, probs, branch, sampled, idxNext,
                   calls, applies, frames>>

\* lines 93-100 (and 40-41): the forward pass, the last time step, the temperature
Forward ==
    /\ pc = "apply"
    /\ applies' = applies + 1
    /\ IF Cols(idxShaped) # blockSize
       THEN /\ pc' = "applyError"   \* apply throws "Sequence must be of size"
            /\ UNCHANGED <<pos, lastCharLogits, live, ref>>
       ELSE /\ pos' = LastPos(i, blockSize)
            /\ lastCharLogits' = LastStep(apply(weights, idxShaped), pos', temperature)
            /\ live' = live \cup {Handle("logits", i), Handle("logitsSlice", i),
                                  Handle("squeezed", i), Handle("temperature", i),
                                  Handle("scaled", i)}
            /\ ref' = [ref EXCEPT !.logits = Handle("logits", i),
                                  !.lastCharLogits = Handle("scaled", i)]
            /\ pc' = "topk"
    /\ UNCHANGED <<params, idx, i, idxShaped, probs, branch, sampled, idxNext, calls, frames>>

\* lines 102-109: the top-k mask when topK is given, then softmax
Filter ==
    /\ pc = "topk"
    /\ lastCharLogits' = ApplyTopK(lastCharLogits, topK)
    /\ probs' = softmax(lastCharLogits')
    /\ IF topK # 0
       THEN /\ live' = live \cup {Handle("topkValues", i), Handle("topkIndices", i),
                                  Handle("smallestTopK", i), Handle("greaterEqual", i),
                                  Handle("negInfinity", i), Handle("masked", i),
                                  Handle("probs", i)}
            /\ ref' = [ref EXCEPT !.lastCharLogits = Handle("masked", i),
                                  !.probs = Handle("probs", i)]
       ELSE /\ live' = live \cup {Handle("probs", i)}
            /\ ref' = [ref EXCEPT !.probs = Handle("probs", i)]
    /\ pc' = "sample"
    /\ UNCHANGED <<params, idx, i, idxShaped, pos, branch, sampled, idxNext, calls,
                   applies, frames>>

\* lines 118-123: doSample on the webgpu backend
SampleWebgpu ==
    /\ pc = "sample"
    /\ doSample
    /\ \E u \in Draws :
          /\ sampled' = multinomialWebgpu(probs, 2, u)
          /\ idxNext' = SliceWebgpu(sampled')
    /\ branch' = "webgpu"
    /\ live' = live \cup {Handle("sampled", i), Handle("idxNextSliced", i)}
    /\ ref' = [ref EXCEPT !.sampled = Handle("sampled", i),
                          !.idxNextSliced = Handle("idxNextSliced", i),
                          !.idxNext = Handle("idxNextSliced", i)]
    /\ pc' = "append"
    /\ UNCHANGED <<params, idx, i, idxShaped, pos, lastCharLogits, probs, calls,
                   applies, frames>>

\* lines 124-127: doSample on the tensorflow (node) backend
SampleNode ==
    /\ pc = "sample"
    /\ doSample
    /\ \E u \in Draws : sampled' = multinomialLogits(lastCharLogits, u)
    /\ idxNext' = sampled'
    /\ branch' = "tensorflow"
    /\ live' = live \cup {Handle("sampled", i)}
    /\ ref' = [ref EXCEPT !.sampled = Handle("sampled", i),
                          !.idxNext = Handle("sampled", i)]
    /\ pc' = "append"
    /\ UNCHANGED <<params, idx, i, idxShaped, pos, lastCharLogits, probs, calls,
                   applies, frames>>

\* lines 128-131: doSample on any other backend
SampleDefault ==
    /\ pc = "sample"
    /\ doSample
    /\ \E u \in Draws : sampled' = multinomialProbs(probs, 1, u)
    /\ idxNext' = sampled'
    /\ branch' \in Backends \ {"webgpu", "tensorflow"}
    /\ live' = live \cup {Handle("sampled", i)}
    /\ ref' = [ref EXCEPT !.sampled = Handle("sampled", i),
                          !.idxNext = Handle("sampled", i)]
    /\ pc' = "append"
    /\ UNCHANGED <<params, idx, i, idxShaped, pos, lastCharLogits, probs, calls,
                   applies, frames>>

\* lines 132-135: the most likely token
Greedy ==
    /\ pc = "sample"
    /\ ~doSample
    /\ sampled' = argMax(probs)
    /\ idxNext' = sampled'
    /\ branch' = "greedy"
    /\ live' = live \cup {Handle("argMax", i), Handle("sampled", i)}
    /\ ref' = [ref EXCEPT !.sampled = Handle("sampled", i),
                          !.idxNext = Handle("sampled", i)]
    /\ pc' = "append"
    /\ UNCHANGED <<params, idx, i, idxShaped, pos, lastCharLogits, probs, calls,
                   applies, frames>>

\* lines 138-139: oldIdx = idx; idx = idx.concat(idxNext, 1).  concat throws when
\* the shapes differ off the concatenated axis, and generate then rejects.
AppendToken ==
    /\ pc = "append"
    /\ IF ConcatOk(idx, idxNext)
       THEN /\ idx' = Concat1(idx, idxNext)
            /\ live' = live \cup {Handle("idx", i)}
            /\ ref' = [ref EXCEPT !.oldIdx = ref.idx, !.idx = Handle("idx", i)]
            /\ pc' = IF hasCallback THEN "callback" ELSE "dispose"
       ELSE /\ pc' = "concatError"
            /\ ref' = [ref EXCEPT !.oldIdx = ref.idx]
            /\ UNCHANGED <<idx, live>>
    /\ UNCHANGED <<params, i, locals, calls, applies, frames>>

\* a callback argument read from the last batch row instead of row 0
nextTokenLastRow(arr) == arr[Len(arr)][1]

\* line 142: ((await idxNext.array()) as number[][])[0][0]
nextToken(arr) == arr[1][1]

\* lines 141-144: onGenerateChar(nextToken)
Callback ==
    /\ pc = "callback"
    /\ calls' = Append(calls, nextToken(idxNext))
    /\ pc' = "dispose"
    /\ UNCHANGED <<params, idx, i, locals, ref, live, applies, frames>>

\* a dispose list that forgets probs
DisposeListWithoutProbs(r) ==
    <<r.idxShaped, r.logits, r.lastCharLogits, r.sampled, r.idxNextSliced,
      r.idxNext, r.oldIdx>>

\* line 146: the list handed to dispose()
DisposeList(r) ==
    <<r.idxShaped, r.logits, r.lastCharLogits, r.probs, r.sampled, r.idxNextSliced,
      r.idxNext, r.oldIdx>>

\* line 146
Dispose ==
    /\ pc = "dispose"
    /\ live' = dispose(live, DisposeList(ref))
    /\ pc' = "frame"
    /\ UNCHANGED <<params, idx, i, locals, ref, calls, applies, frames>>

\* lines 149 and 79: await tf.nextFrame(), then i++ and the locals go out of scope
NextFrame ==
    /\ pc = "frame"
    /\ frames' = frames + 1
    /\ i' = i + 1
    /\ idxShaped' = <<>> /\ pos' = 0 /\ lastCharLogits' = <<>> /\ probs' = <<>>
    /\ branch' = "none" /\ sampled' = <<>> /\ idxNext' = <<>>
    /\ ref' = [NoRefs EXCEPT !.idx = ref.idx]
    /\ pc' = "loop"
    /\ UNCHANGED <<params, idx, live, calls, applies>>

\* lines 79 and 151: the loop ends, return idx
Return ==
    /\ pc = "loop"
    /\ i >= maxNewTokens
    /\ pc' = "done"
    /\ UNCHANGED <<params, idx, i, locals, ref, live, calls, applies, frames>>

Next ==
    \/ ShapeInput
    \/ Forward
    \/ Filter
    \/ SampleWebgpu
    \/ SampleNode
    \/ SampleDefault
    \/ Greedy
    \/ AppendToken
    \/ Callback
    \/ Dispose
    \/ NextFrame
    \/ Return

Spec == Init /\ [][Next]_vars

TypeOK ==
    /\ pc \in {"loop", "apply", "topk", "sample", "append", "callback", "dispose",
               "frame", "done", "applyError", "concatError"}
    /\ i \in 0 .. MaxNew

\* ------------------------------------------------------------ properties
T0 == Cols(prompt)
\* the iteration has built its input and has not appended yet: idx is still (B, T)
BeforeAppend == pc \in {"apply", "topk", "sample", "append", "concatError"}
AfterForward == pc \in {"topk", "sample", "append", "concatError"}
AfterAppend == pc \in {"callback", "dispose", "frame"}
Appended == IF AfterAppend THEN 1 ELSE 0

C2_InputHoldsWholeSequence ==
    BeforeAppend =>
        /\ Cols(idx) <= Cols(idxShaped)
        /\ SliceCols(idxShaped, 0, Cols(idx)) = idx

\* C2 amended: the input of every forward pass holds, in order and from its first
\* column on, the last min(T, blockSize) tokens of the running sequence: all of
\* them while T <= blockSize, and the older T - blockSize tokens are left out after.
C2_InputHoldsRecentTokens ==
    BeforeAppend =>
        LET T == Cols(idx)
            n == Min(T, blockSize)
        IN  /\ SliceCols(idxShaped, 0, n) = SliceCols(idx, T - n, n)
            /\ T <= blockSize => SliceCols(idxShaped, 0, T) = idx

C2_Witness ==
    AfterForward /\ Cols(idx) > blockSize /\ i >= 1

\* C3: with topK >= 1, at most min(topK, vocabSize) tokens of each row keep a
\* non-zero probability, each of them has a logit at least as large as every
\* excluded token, and the emitted token is one of them.
C3_TopKKeepsAtMostK ==
    (pc \in {"sample", "append", "concatError"} /\ topK >= 1) =>
        \A b \in 1 .. Len(probs) :
            LET kept == SupportProbs(probs[b])
                scaled == LastStep(apply(weights, idxShaped), pos, temperature)[b]
            IN  /\ Cardinality(kept) <= Min(topK, VocabSize)
                /\ \A c \in kept, d \in Tokens \ kept : scaled[c + 1] >= scaled[d + 1]
                /\ (pc # "sample" /\ b <= Rows(idxNext)) => idxNext[b][1] \in kept

\* the tensors of a heap that generate allocated (all but the caller's prompt)
Created(heap) == {h \in heap : h.n # "prompt"}

\* the tensors an iteration allocates and neither names in its dispose list nor
\* returns, and those of the first k iterations
LeakedNames ==
    {"slice", "zeros", "logitsSlice", "squeezed", "temperature"}
        \cup (IF topK # 0
              THEN {"scaled", "topkValues", "topkIndices", "smallestTopK",
                    "greaterEqual", "negInfinity"}
              ELSE {})
        \cup (IF doSample THEN {} ELSE {"argMax"})
Leaked(k) == {Handle(n, j) : n \in LeakedNames, j \in 0 .. (k - 1)}

\* C4 as stated: every tensor an iteration allocates, other than the extended idx,
\* is disposed by the end of the iteration, so the only live tensor generate
\* created is the running (at the end, returned) sequence.
C4_NoTensorLeaks ==
    pc \in {"frame", "done"} => Created(live) \subseteq {ref.idx}

\* C4 amended: at the end of each iteration generate has disposed the tensors it
\* lists (idxShaped, logits, the final lastCharLogits, probs, sampled,
\* idxNextSliced, idxNext and the previous running sequence, which in the first
\* iteration is the caller's prompt); the intermediates it holds no name for stay
\* live: the slice and the zero padding of the input, the sliced and the squeezed
\* logits, the temperature scalar, with topK the scaled logits and the five
\* tensors of the mask, and without doSample the argMax.  They add up over the
\* iterations, so on return the live tensors generate created are the returned
\* sequence and those of all iterations.
C4_DisposesOnlyListed ==
    /\ pc = "frame" =>
          /\ \A k \in 1 .. Len(DisposeList(ref)) : DisposeList(ref)[k] \notin live
          /\ live = {ref.idx} \cup Leaked(i + 1)
    /\ pc \in {"loop", "done"} =>
          Created(live) = (IF i = 0 THEN {} ELSE {ref.idx}) \cup Leaked(i)

C4_Witness ==
    pc = "done" /\ i >= 2 /\ topK # 0 /\ ~doSample /\ PromptTensor \notin live

\* C5: for a prompt of length T0 >= 1 the logits the next token is chosen from
\* are those of position min(T, blockSize) - 1 of the model input, the position
\* of the most recent token.
C5_LogitsOfLastToken ==
    (AfterForward /\ T0 >= 1) => pos = Min(Cols(idx), blockSize) - 1

C7_OneTokenPerRow ==
    /\ pc # "concatError"
    /\ pc = "append" =>
          /\ Rows(idxNext) = Rows(idx)
          /\ \A b \in 1 .. Rows(idxNext) : Len(idxNext[b]) = 1 /\ idxNext[b][1] \in Tokens

\* C8: with onGenerateChar supplied, the callback has been called once for every
\* token appended to row 0, in order and with that token; the forward pass of
\* iteration i starts only after the i calls for the earlier tokens; every
\* tf.nextFrame() of an iteration follows its callback, one yield per iteration;
\* on return the calls are the last maxNewTokens entries of row 0.
C8_CallbackPerToken ==
    hasCallback =>
        /\ calls = SubSeq(idx[1], T0 + 1, T0 + Len(calls))
        /\ Len(calls) = i + (IF pc \in {"dispose", "frame"} THEN 1 ELSE 0)
        /\ applies = i + (IF pc \in {"loop", "apply", "done"} THEN 0 ELSE 1)
        /\ frames = i
        /\ pc = "done" =>
              /\ Len(calls) = maxNewTokens
              /\ calls = SubSeq(idx[1], Cols(idx) - maxNewTokens + 1, Cols(idx))

C8_Witness ==
    hasCallback /\ pc = "done" /\ Len(calls) >= 2 /\ Rows(idx) >= 2

====
